---- MODULE Spec2Model ----
(***************************************************************************)
(* Order lifecycle and payment reconciliation of hp-cars-uploader.         *)
(*                                                                         *)
(*   server.js          the payment-aware API (orders in data/orders.json) *)
(*   index.js           the legacy CRUD variant (orders in orders.json)    *)
(*   unnamed/part_000   the stand-alone uploader (files + mail, no orders) *)
(*                                                                         *)
(* The three programs keep separate state; each has its own specification. *)
(***************************************************************************)
EXTENDS Integers, Sequences, FiniteSets, TLC

VARIABLES
  orders,      \* server.js: db.orders, the array persisted in ORDERS_DB
  nextId,      \* server.js / index.js: number of order ids generated so far
  now,         \* the wall clock read by Date.now() / new Date()
  adminEnv,    \* process.env.ADMIN_KEY ("" when not set)
  firebaseOn,  \* server.js: admin.apps.length > 0 (token verification active)
  resultsDir,  \* the files multer has written to RESULTS_DIR
  resp,        \* the last request handled and the response it got
  db,          \* index.js: the array persisted in DB_FILE
  reqs,        \* index.js: upload-mod requests suspended at "await file.mv"
  upl          \* part_000: the files in UPLOAD_DIR and RESULTS_DIR

vars == <<orders, nextId, now, adminEnv, firebaseOn, resultsDir, resp, db, reqs, upl>>

----------------------------------------------------------------------------
(* Bounds of the model *)

MaxOrders == 1        \* order ids generated in one run
MaxClock == 1         \* the clock takes the values 0..MaxClock
MaxInflight == 2      \* upload-mod requests that may be suspended at once
MaxLegacyOrders == 1  \* index.js: order ids generated in one run
MaxPairOrders == 2    \* order ids generated in one run of SpecPair
MaxLegacyPairOrders == 2  \* index.js: order ids generated in one run of SpecLegacyPair

(* Input alphabets *)

NoId == 0                                  \* orderId missing from the request
OrderIds == 1..MaxOrders
Times == 0..MaxClock
Identities == {"a@x", "b@x"}               \* emails carried by valid tokens
Tokens == {"none", "bad"} \cup Identities  \* Authorization header
BodyEmails == {"", "a@x"}                  \* body.email of /uploadBin
Keys == {"", "change-me", "s3cret"}        \* x-admin-key header ("" = absent)
AdminEnvs == {"", "s3cret"}                \* ADMIN_KEY configurations
BodyUrls == {<<>>, <<"u">>}                     \* body.resultFileUrl of mark-ready
\* body.rating as text
RatingTexts == {<<"-", "3">>, <<"4">>, <<"9">>, <<"4", ".", "7">>, <<"x">>, <<>>}
Digits == <<"0", "1", "2", "3", "4", "5", "6", "7", "8", "9">>
IsDigit(c) == \E d \in DOMAIN Digits : Digits[d] = c
DigitVal(c) == (CHOOSE d \in DOMAIN Digits : Digits[d] = c) - 1

\* the number written by a run of digits
RECURSIVE DigitsValue(_)
DigitsValue(ds) ==
  IF ds = <<>> THEN 0
  ELSE 10 * DigitsValue(SubSeq(ds, 1, Len(ds) - 1)) + DigitVal(ds[Len(ds)])

\* parseInt(text, 10): an optional sign, then the longest run of digits;
\* nan = parseInt yields NaN
ParseInt(text) ==
  LET neg == text # <<>> /\ text[1] = "-"
      body == IF neg THEN Tail(text) ELSE text
      run == {k \in 0..Len(body) : \A i \in 1..k : IsDigit(body[i])}
      n == CHOOSE k \in run : \A j \in run : j <= k
  IN IF n = 0 THEN [nan |-> TRUE, val |-> 0]
     ELSE [nan |-> FALSE,
           val |-> (IF neg THEN -1 ELSE 1) * DigitsValue(SubSeq(body, 1, n))]

\* body.rating after parseInt
RatingInputs == {ParseInt(text) : text \in RatingTexts}
RateSome == {r \in RatingInputs : r.val \in {-3, 4}}
FeedbackInputs == {<<>>, <<"g">>}
CaptureStatuses == {"COMPLETED", "PENDING", "THROWS"}
RawStatuses == {"approved", "pending"}     \* what a webhook reports
FeedbackMax == 2000

\* the text fields of the /uploadBin form ("" = field absent)
MetaKeys == {"marca", "modelo", "motor", "combustible", "anio", "transmision", "ecu"}
SolKeys == {"egrOff", "dpfOff", "dtcOff", "stage1", "stage2", "vmax", "immoOff"}
FormKeys == MetaKeys \cup SolKeys \cup {"comentarios"}
EmptyForm == [k \in FormKeys |-> ""]
FullForm == [EmptyForm EXCEPT !["marca"] = "vw", !["egrOff"] = "true",
                              !["dpfOff"] = "on", !["comentarios"] = "c"]
Forms == {EmptyForm, FullForm}

----------------------------------------------------------------------------
(* Helpers *)

Min(a, b) == IF a < b THEN a ELSE b
Max(a, b) == IF a > b THEN a ELSE b

\* Array.prototype.findIndex, 1-based; 0 stands for JavaScript's -1
\* hits = the indexes whose element satisfies the callback
FirstIndex(hits) ==
  IF hits = {} THEN 0 ELSE CHOOSE i \in hits : \A j \in hits : i <= j

\* findIndex(o => o.orderId === orderId)
FindIndex(arr, id) == FirstIndex({i \in 1..Len(arr) : arr[i].orderId = id})

\* Splice, had it been called as splice(idx), without the count
SpliceToEnd(arr, idx) == SubSeq(arr, 1, idx-1)

\* Array.prototype.splice(idx, 1)
Splice(arr, idx) == SubSeq(arr, 1, idx-1) \o SubSeq(arr, idx+1, Len(arr))

\* String.prototype.slice(0, n)
Slice(s, n) == SubSeq(s, 1, Min(Len(s), n))

\* ToLowerCase, had the comparison been case-sensitive
ToLowerCaseKeepsCase(e) == e

\* String.prototype.toLowerCase on the email alphabet
ToLowerCase(e) == IF e = "A@x" THEN "a@x" ELSE e

\* server.js: const ADMIN_KEY = process.env.ADMIN_KEY || "change-me"
ADMIN_KEY == IF adminEnv = "" THEN "change-me" ELSE adminEnv

\* server.js: (req.headers["x-admin-key"] || "") !== ADMIN_KEY
AdminDenied(key) == key # ADMIN_KEY

\* server.js verifyAuth: the outcome for an Authorization header
\*   pass = next() was called, email = req.user?.email || ""
VerifyAuth(token) ==
  IF ~firebaseOn THEN [pass |-> TRUE, email |-> ""]
  ELSE IF token = "none" THEN [pass |-> FALSE, email |-> ""]
  ELSE IF token = "bad" THEN [pass |-> FALSE, email |-> ""]
  ELSE [pass |-> TRUE, email |-> token]

\* multer diskStorage filename: `${Date.now()}_${safe}` / path.basename
StoredName(t, safe) == <<ToString(t), safe>>
\* `${PUBLIC_BASE}/results/${path.basename(file.path)}`
ResultUrl(name) == <<"PUBLIC_BASE", "results">> \o name

\* `${PUBLIC_BASE}/files/${path.basename(file.path)}`
FileUrl(name) == <<"PUBLIC_BASE", "files">> \o name

\* The response record; removed is the member of that name in the body of
\* a DELETE response (<<>> when the body has none)
Resp(op, id, code, key, who, ids) ==
  [op |-> op, id |-> id, code |-> code, key |-> key, who |-> who, ids |-> ids,
   removed |-> <<>>]

IdsOf(arr) == {arr[i].orderId : i \in 1..Len(arr)}

----------------------------------------------------------------------------
(* server.js *)

\* NewOrder, had it created the order as already paid
NewOrderAsPaid(id, email, form, t) ==
  [orderId |-> id, userEmail |-> email,
   meta |-> [k \in MetaKeys |-> form[k]],
   soluciones |-> [k \in SolKeys |-> form[k] = "true"],
   comments |-> form["comentarios"],
   originalFileName |-> StoredName(t, "o.bin"),
   originalFileUrl |-> FileUrl(StoredName(t, "o.bin")),
   resultFileName |-> <<>>, resultFileUrl |-> <<>>,
   status |-> "paid",
   paymentProvider |-> "", paymentId |-> "", paymentStatus |-> "",
   rating |-> 0, feedback |-> <<>>,
   createdAt |-> t, updatedAt |-> t]

\* the order record built by POST /uploadBin
NewOrder(id, email, form, t) ==
  [orderId |-> id, userEmail |-> email,
   meta |-> [k \in MetaKeys |-> form[k]],
   soluciones |-> [k \in SolKeys |-> form[k] = "true"],
   comments |-> form["comentarios"],
   originalFileName |-> StoredName(t, "o.bin"),
   originalFileUrl |-> FileUrl(StoredName(t, "o.bin")),
   resultFileName |-> <<>>, resultFileUrl |-> <<>>,
   status |-> "uploaded",
   paymentProvider |-> "", paymentId |-> "", paymentStatus |-> "",
   rating |-> 0, feedback |-> <<>>,
   createdAt |-> t, updatedAt |-> t]

\* POST /uploadBin; cap bounds the order ids a run generates
UploadBinUpTo(cap, token, bodyEmail, form, hasFile) ==
  LET a == VerifyAuth(token)
      email == IF bodyEmail # "" THEN bodyEmail ELSE a.email
  IN /\ nextId < cap
     /\ IF ~a.pass
          THEN /\ resp' = Resp("uploadBin", NoId, 401, "", "", {})
               /\ UNCHANGED <<orders, nextId>>
        ELSE IF ~hasFile
          THEN /\ resp' = Resp("uploadBin", NoId, 400, "", a.email, {})
               /\ UNCHANGED <<orders, nextId>>
        ELSE /\ nextId' = nextId + 1
             /\ orders' = Append(orders, NewOrder(nextId + 1, email, form, now))
             /\ resp' = Resp("uploadBin", nextId + 1, 200, "", a.email, {nextId + 1})
     /\ UNCHANGED <<now, adminEnv, firebaseOn, resultsDir, db, reqs, upl>>

UploadBin(token, bodyEmail, form, hasFile) ==
  UploadBinUpTo(MaxOrders, token, bodyEmail, form, hasFile)

\* MpMarkPaid, had it left the status alone
MpMarkPaidKeepsStatus(o, t) ==
  [o EXCEPT !.paymentStatus = "approved", !.paymentProvider = "mercadopago",
            !.updatedAt = t]

\* the record written by the Mercado Pago webhook
MpMarkPaid(o, t) ==
  [o EXCEPT !.paymentStatus = "approved", !.paymentProvider = "mercadopago",
            !.status = "paid", !.updatedAt = t]

\* MpWebhook, had it stored a paid order for an id it does not find
MpWebhookUpserts(id, raw) ==
  LET idx == FindIndex(orders, id)
  IN /\ IF id # NoId /\ idx > 0
          THEN orders' = [orders EXCEPT ![idx] = MpMarkPaid(@, now)]
        ELSE IF id # NoId
          THEN orders' = Append(orders, MpMarkPaid(NewOrder(id, "", EmptyForm, now), now))
        ELSE UNCHANGED orders
     /\ resp' = Resp("mpWebhook", id, 200, "", raw, {})
     /\ UNCHANGED <<nextId, now, adminEnv, firebaseOn, resultsDir, db, reqs, upl>>

\* POST /payments/mp/webhook; raw is the status the notification reports,
\* which the handler never reads
MpWebhook(id, raw) ==
  LET idx == FindIndex(orders, id)
  IN /\ IF id # NoId /\ idx > 0
          THEN orders' = [orders EXCEPT ![idx] = MpMarkPaid(@, now)]
          ELSE UNCHANGED orders
     /\ resp' = Resp("mpWebhook", id, 200, "", raw, {})
     /\ UNCHANGED <<nextId, now, adminEnv, firebaseOn, resultsDir, db, reqs, upl>>

\* PaypalMarkPaid, had it recorded the raw status of an incomplete capture
PaypalMarkPaidRecordsRaw(o, st, t) ==
  IF st = "COMPLETED"
    THEN [o EXCEPT !.paymentStatus = "approved", !.paymentProvider = "paypal",
                   !.status = "paid", !.updatedAt = t]
    ELSE [o EXCEPT !.paymentStatus = "pending", !.updatedAt = t]

\* the record written by a completed PayPal capture; st is
\* response.result.status
PaypalMarkPaid(o, st, t) ==
  IF st = "COMPLETED"
    THEN [o EXCEPT !.paymentStatus = "approved", !.paymentProvider = "paypal",
                   !.status = "paid", !.updatedAt = t]
    ELSE o

\* POST /payments/paypal/capture-order; st = "THROWS" when the PayPal client
\* rejects the capture request
PaypalCapture(hasPaypalId, id, st) ==
  LET idx == FindIndex(orders, id)
  IN /\ IF ~hasPaypalId \/ id = NoId
          THEN /\ resp' = Resp("paypalCapture", id, 400, "", "", {})
               /\ UNCHANGED orders
        ELSE IF st = "THROWS"
          THEN /\ resp' = Resp("paypalCapture", id, 500, "", st, {})
               /\ UNCHANGED orders
        ELSE /\ resp' = Resp("paypalCapture", id, 200, "", st, {})
             /\ IF idx > 0
                  THEN orders' = [orders EXCEPT ![idx] = PaypalMarkPaid(@, st, now)]
                  ELSE UNCHANGED orders
     /\ UNCHANGED <<nextId, now, adminEnv, firebaseOn, resultsDir, db, reqs, upl>>

\* GET /orders
GetOrders(token, queryEmail) ==
  LET a == VerifyAuth(token)
      email == IF queryEmail # "" THEN queryEmail ELSE a.email
      out == IF email # ""
               THEN SelectSeq(orders, LAMBDA o : ToLowerCase(o.userEmail) = ToLowerCase(email))
               ELSE <<>>
  IN /\ IF ~a.pass
          THEN resp' = Resp("getOrders", NoId, 401, "", "", {})
          ELSE resp' = Resp("getOrders", NoId, 200, "", email, IdsOf(out))
     /\ UNCHANGED <<orders, nextId, now, adminEnv, firebaseOn, resultsDir, db, reqs, upl>>

\* GET /admin/orders
AdminOrders(key) ==
  /\ IF AdminDenied(key)
       THEN resp' = Resp("adminOrders", NoId, 401, key, "", {})
       ELSE resp' = Resp("adminOrders", NoId, 200, key, "", IdsOf(orders))
  /\ UNCHANGED <<orders, nextId, now, adminEnv, firebaseOn, resultsDir, db, reqs, upl>>

\* MarkReadyMutate, had it moved only paid orders to ready
MarkReadyMutateNeedsPayment(o, url, t) ==
  [o EXCEPT !.resultFileUrl = IF url # <<>> THEN url ELSE o.resultFileUrl,
            !.status = IF o.paymentStatus = "paid" THEN "ready" ELSE o.status,
            !.updatedAt = t]

\* the record written by mark-ready; url is body.resultFileUrl
MarkReadyMutate(o, url, t) ==
  [o EXCEPT !.resultFileUrl = IF url # <<>> THEN url ELSE o.resultFileUrl,
            !.status = "ready", !.updatedAt = t]

\* POST /orders/:orderId/mark-ready
MarkReady(key, id, url) ==
  LET idx == FindIndex(orders, id)
  IN /\ IF AdminDenied(key)
          THEN /\ resp' = Resp("markReady", id, 401, key, "", {})
               /\ UNCHANGED orders
        ELSE IF idx = 0
          THEN /\ resp' = Resp("markReady", id, 404, key, "", {})
               /\ UNCHANGED orders
        ELSE /\ orders' = [orders EXCEPT ![idx] = MarkReadyMutate(@, url, now)]
             /\ resp' = Resp("markReady", id, 200, key, "", {id})
     /\ UNCHANGED <<nextId, now, adminEnv, firebaseOn, resultsDir, db, reqs, upl>>

\* ClampRating, had it lacked the upper limit
ClampRatingNoCeiling(r) == Max(0, IF r.nan THEN 0 ELSE r.val)

\* Math.max(0, Math.min(5, parseInt(rating,10) || 0))
ClampRating(r) == Max(0, Min(5, IF r.nan THEN 0 ELSE r.val))

\* RateFindIndex, had it matched on the id alone
RateFindIndexAnyOwner(arr, id, email) ==
  FindIndex(arr, id)

\* the index the rate handler mutates: the order has the id and belongs to
\* the caller
RateFindIndex(arr, id, email) ==
  FirstIndex({i \in 1..Len(arr) : arr[i].orderId = id /\ arr[i].userEmail = email})

\* RateMutate, had it written the feedback text into comments
RateMutateOverComments(o, rating, feedback, t) ==
  [o EXCEPT !.rating = ClampRating(rating),
            !.comments = "g",
            !.updatedAt = t]

\* the record written by the rate handler
RateMutate(o, rating, feedback, t) ==
  [o EXCEPT !.rating = ClampRating(rating),
            !.feedback = Slice(feedback, FeedbackMax),
            !.updatedAt = t]

\* POST /orders/:orderId/rate
Rate(token, id, rating, feedback) ==
  LET a == VerifyAuth(token)
      idx == RateFindIndex(orders, id, a.email)
  IN /\ IF ~a.pass
          THEN /\ resp' = Resp("rate", id, 401, "", "", {})
               /\ UNCHANGED orders
        ELSE IF idx = 0
          THEN /\ resp' = Resp("rate", id, 404, "", a.email, {})
               /\ UNCHANGED orders
        ELSE /\ orders' = [orders EXCEPT ![idx] = RateMutate(@, rating, feedback, now)]
             /\ resp' = Resp("rate", id, 200, "", a.email, {id})
     /\ UNCHANGED <<nextId, now, adminEnv, firebaseOn, resultsDir, db, reqs, upl>>

\* DELETE /orders/:orderId
Delete(key, id) ==
  LET idx == FindIndex(orders, id)
  IN /\ IF AdminDenied(key)
          THEN /\ resp' = Resp("delete", id, 401, key, "", {})
               /\ UNCHANGED orders
        ELSE IF idx = 0
          THEN /\ resp' = Resp("delete", id, 404, key, "", {})
               /\ UNCHANGED orders
        ELSE /\ orders' = Splice(orders, idx)
             /\ resp' = [Resp("delete", id, 200, key, "", {id})
                          EXCEPT !.removed = <<orders[idx]>>]
     /\ UNCHANGED <<nextId, now, adminEnv, firebaseOn, resultsDir, db, reqs, upl>>

\* the files in RESULTS_DIR after the uploadResult.single("file") middleware,
\* which runs before the route handler
MulterResult(dir, hasFile, t) ==
  IF hasFile THEN dir \cup {StoredName(t, "r.bin")} ELSE dir

\* the record written by uploadResult
UploadResultMutate(o, name, t) ==
  [o EXCEPT !.resultFileName = name, !.resultFileUrl = ResultUrl(name),
            !.status = "ready", !.updatedAt = t]

\* POST /uploadResult; mail is what the SMTP branch does: "skip" (SMTP not
\* configured or no email in the body), "sent", or "fail" (sendMail throws)
UploadResult(key, hasFile, id, mail) ==
  LET idx == FindIndex(orders, id)
      name == StoredName(now, "r.bin")
  IN /\ resultsDir' = MulterResult(resultsDir, hasFile, now)
     /\ IF AdminDenied(key)
          THEN /\ resp' = Resp("uploadResult", id, 401, key, mail, {})
               /\ UNCHANGED orders
        ELSE IF ~hasFile
          THEN /\ resp' = Resp("uploadResult", id, 400, key, mail, {})
               /\ UNCHANGED orders
        ELSE /\ IF id # NoId /\ idx > 0
                  THEN orders' = [orders EXCEPT ![idx] = UploadResultMutate(@, name, now)]
                  ELSE UNCHANGED orders
             /\ resp' = Resp("uploadResult", id, IF mail = "fail" THEN 500 ELSE 200,
                             key, mail, {})
     /\ UNCHANGED <<nextId, now, adminEnv, firebaseOn, db, reqs, upl>>

\* time passes between requests
Tick ==
  /\ now < MaxClock
  /\ now' = now + 1
  /\ UNCHANGED <<orders, nextId, adminEnv, firebaseOn, resultsDir, resp, db, reqs, upl>>

----------------------------------------------------------------------------
(* index.js *)

NoTime == -1       \* a timestamp field the record does not have yet
LegacyIds == 1..MaxLegacyOrders
LegacyAllowed == {"pending", "in_progress", "ready", "delivered", "rejected"}
LegacyFiles == {<<"a">>, <<"b", " ">>}     \* file.name of an uploaded file
SafeChars == {"a", "b", ".", "_", "-"}

\* safeName: name.replace(/[^a-zA-Z0-9._-]/g, "_")
SafeName(name) == [i \in DOMAIN name |-> IF name[i] \in SafeChars THEN name[i] ELSE "_"]

\* a request slot that holds no suspended upload-mod
IdleReq == [pc |-> "idle", id |-> NoId, snap |-> <<>>, idx |-> 0, file |-> <<>>]

\* the record built by POST /api/upload
LegacyRecord(id, t) ==
  [orderId |-> id, status |-> "pending", createdAt |-> t, updatedAt |-> NoTime,
   modified |-> <<>>]

\* POST /api/upload: file.mv is awaited before readDB, so the load, push and
\* write run without interruption; cap bounds the order ids a run generates
ApiUploadUpTo(cap, hasFile, mvOk) ==
  /\ nextId < cap
  /\ IF ~hasFile
       THEN /\ resp' = Resp("apiUpload", NoId, 400, "", "", {})
            /\ UNCHANGED <<db, nextId>>
     ELSE IF ~mvOk
       THEN /\ resp' = Resp("apiUpload", NoId, 500, "", "", {})
            /\ UNCHANGED <<db, nextId>>
     ELSE /\ nextId' = nextId + 1
          /\ db' = Append(db, LegacyRecord(nextId + 1, now))
          /\ resp' = Resp("apiUpload", nextId + 1, 200, "", "", {nextId + 1})
  /\ UNCHANGED <<orders, now, adminEnv, firebaseOn, resultsDir, reqs, upl>>

ApiUpload(hasFile, mvOk) == ApiUploadUpTo(MaxLegacyOrders, hasFile, mvOk)

\* the record written by the status handler
StatusMutate(o, status, t) == [o EXCEPT !.status = status, !.updatedAt = t]

\* POST /api/orders/:orderId/status
SetStatus(id, status) ==
  LET idx == FindIndex(db, id)
  IN /\ IF status \notin LegacyAllowed
          THEN /\ resp' = Resp("status", id, 400, "", status, {})
               /\ UNCHANGED db
        ELSE IF idx = 0
          THEN /\ resp' = Resp("status", id, 404, "", status, {})
               /\ UNCHANGED db
        ELSE /\ db' = [db EXCEPT ![idx] = StatusMutate(@, status, now)]
             /\ resp' = Resp("status", id, 200, "", status, {id})
     /\ UNCHANGED <<orders, nextId, now, adminEnv, firebaseOn, resultsDir, reqs, upl>>

\* POST /api/orders/:orderId/upload-mod up to "await file.mv(dest)": the
\* handler has loaded the store and found the order
UploadModBegin(s, id, hasFile, file) ==
  LET idx == FindIndex(db, id)
  IN /\ reqs[s].pc = "idle"
     /\ IF ~hasFile
          THEN /\ resp' = Resp("uploadMod", id, 400, "", "", {})
               /\ UNCHANGED reqs
        ELSE IF idx = 0
          THEN /\ resp' = Resp("uploadMod", id, 404, "", "", {})
               /\ UNCHANGED reqs
        ELSE /\ reqs' = [reqs EXCEPT ![s] =
                   [pc |-> "mv", id |-> id, snap |-> db, idx |-> idx, file |-> file]]
             /\ UNCHANGED resp
     /\ UNCHANGED <<orders, nextId, now, adminEnv, firebaseOn, resultsDir, db, upl>>

\* UploadModMutate, had it left the status of the loaded copy alone
UploadModMutateKeepsStatus(o, file, t) ==
  [o EXCEPT !.modified = <<[name |-> file,
                            path |-> <<"uploads", ToString(o.orderId)>> \o SafeName(file),
                            uploadedAt |-> t]>>,
            !.updatedAt = t]

\* the record written by upload-mod
UploadModMutate(o, file, t) ==
  [o EXCEPT !.modified = <<[name |-> file,
                            path |-> <<"uploads", ToString(o.orderId)>> \o SafeName(file),
                            uploadedAt |-> t]>>,
            !.status = "ready",
            !.updatedAt = t]

\* upload-mod after "await file.mv(dest)": the handler changes the copy of the
\* store it loaded before the await and writes that copy
UploadModFinish(s, mvOk) ==
  LET r == reqs[s]
  IN /\ r.pc = "mv"
     /\ reqs' = [reqs EXCEPT ![s] = IdleReq]
     /\ IF ~mvOk
          THEN /\ resp' = Resp("uploadMod", r.id, 500, "", "", {})
               /\ UNCHANGED db
          ELSE /\ db' = [r.snap EXCEPT ![r.idx] = UploadModMutate(@, r.file, now)]
               /\ resp' = Resp("uploadMod", r.id, 200, "", "", {r.id})
     /\ UNCHANGED <<orders, nextId, now, adminEnv, firebaseOn, resultsDir, upl>>

----------------------------------------------------------------------------
(* unnamed/part_000: the stand-alone uploader *)

\* part_000: const ADMIN_KEY = process.env.ADMIN_KEY || ""
UploaderAdminKey == adminEnv

\* part_000 /uploadResult: if(ADMIN_KEY){ if(!k || k !== ADMIN_KEY) 401 }
UploaderDenied(key) ==
  UploaderAdminKey # "" /\ (key = "" \/ key # UploaderAdminKey)

OrigExts == {".bin", ".hex", ".kp", ".ols", ".ecu"}
ResultExts == OrigExts \cup {".zip"}
UploadExts == {".bin", ".zip", ".exe"}      \* extensions of the files sent

\* makeStorage filename: Date.now() + "_" + safe
UploaderName(t, ext) == <<ToString(t), "f", ext>>

\* POST /uploadBin of part_000; metaOk = writeMetaJSON did not throw
UploaderUploadBin(ext, metaOk) ==
  /\ IF ext \notin OrigExts
       THEN /\ resp' = Resp("p0.uploadBin", NoId, 400, "", ext, {})
            /\ UNCHANGED upl
       ELSE /\ upl' = [upl EXCEPT
                 !.files = @ \cup {UploaderName(now, ext)},
                 !.meta = IF metaOk THEN @ \cup {UploaderName(now, ext)} ELSE @]
            /\ resp' = Resp("p0.uploadBin", NoId, 200, "", ext, {})
  /\ UNCHANGED <<orders, nextId, now, adminEnv, firebaseOn, resultsDir, db, reqs>>

\* POST /uploadResult of part_000; mail is what the SMTP branch does: "skip"
\* (no SMTP settings or no email), "sent", or "fail" (sendMail throws)
UploaderUploadResult(key, ext, metaOk, mail) ==
  /\ IF UploaderDenied(key)
       THEN /\ resp' = Resp("p0.uploadResult", NoId, 401, key, "", {})
            /\ UNCHANGED upl
     ELSE IF ext \notin ResultExts
       THEN /\ resp' = Resp("p0.uploadResult", NoId, 400, key, "", {})
            /\ UNCHANGED upl
     ELSE /\ upl' = [upl EXCEPT
               !.results = @ \cup {UploaderName(now, ext)},
               !.meta = IF metaOk THEN @ \cup {UploaderName(now, ext)} ELSE @]
          /\ resp' = Resp("p0.uploadResult", NoId, 200, key, mail, {})
  /\ UNCHANGED <<orders, nextId, now, adminEnv, firebaseOn, resultsDir, db, reqs>>

NoResp == Resp("none", NoId, 0, "", "", {})

Init ==
  /\ orders = <<>>
  /\ nextId = 0
  /\ now = 0
  /\ adminEnv \in AdminEnvs
  /\ firebaseOn \in BOOLEAN
  /\ resultsDir = {}
  /\ resp = NoResp
  /\ db = <<>>
  /\ reqs = [s \in 1..MaxInflight |-> IdleReq]
  /\ upl = [files |-> {}, results |-> {}, meta |-> {}]

AnyId == OrderIds \cup {NoId}

Next ==
  \/ \E tok \in {"none", "a@x", "b@x"}, e \in BodyEmails, f \in BOOLEAN :
       UploadBin(tok, e, FullForm, f)
  \/ \E id \in AnyId, raw \in RawStatuses : MpWebhook(id, raw)
  \/ \E p \in BOOLEAN, id \in AnyId, st \in CaptureStatuses : PaypalCapture(p, id, st)
  \/ \E tok \in {"none", "a@x"}, q \in {"", "A@x"} : GetOrders(tok, q)
  \/ \E k \in Keys : AdminOrders(k)
  \/ \E k \in Keys, id \in OrderIds, u \in BodyUrls : MarkReady(k, id, u)
  \/ \E tok \in {"none", "a@x", "b@x"}, id \in OrderIds, r \in RateSome :
       Rate(tok, id, r, <<"g">>)
  \/ \E k \in Keys, id \in OrderIds : Delete(k, id)
  \/ \E k \in Keys, f \in BOOLEAN, id \in AnyId, m \in {"skip", "fail"} :
       UploadResult(k, f, id, m)
  \/ Tick

Spec == Init /\ [][Next]_vars

\* index.js reads neither ADMIN_KEY nor Firebase credentials
InitLegacy == Init /\ adminEnv = "" /\ ~firebaseOn

StatusInputs == {"pending", "delivered", "rejected", "bogus"}

NextLegacy ==
  \/ \E f \in BOOLEAN, mv \in BOOLEAN : ApiUpload(f, mv)
  \/ \E id \in LegacyIds, st \in StatusInputs : SetStatus(id, st)
  \/ \E s \in 1..MaxInflight, id \in LegacyIds, f \in BOOLEAN, file \in LegacyFiles :
       UploadModBegin(s, id, f, file)
  \/ \E s \in 1..MaxInflight, mv \in BOOLEAN : UploadModFinish(s, mv)
  \/ Tick

SpecLegacy == InitLegacy /\ [][NextLegacy]_vars

\* part_000 has no Firebase verification
InitUploader == Init /\ ~firebaseOn

NextUploader ==
  \/ \E ext \in UploadExts, m \in BOOLEAN : UploaderUploadBin(ext, m)
  \/ \E k \in Keys, ext \in UploadExts, m \in BOOLEAN, mail \in {"skip", "sent", "fail"} :
       UploaderUploadResult(k, ext, m, mail)
  \/ Tick

SpecUploader == InitUploader /\ [][NextUploader]_vars

\* server.js with ADMIN_KEY set and token verification on: every operation
\* that writes the store, with the full request bodies
InitStore == Init /\ adminEnv = "s3cret" /\ firebaseOn

NextStore ==
  \/ \E tok \in Identities, form \in Forms, f \in BOOLEAN :
       UploadBin(tok, "", form, f)
  \/ \E id \in OrderIds : MpWebhook(id, "approved")
  \/ \E id \in OrderIds : PaypalCapture(TRUE, id, "COMPLETED")
  \/ \E id \in OrderIds, u \in BodyUrls : MarkReady("s3cret", id, u)
  \/ \E tok \in Identities, id \in OrderIds, r \in RatingInputs, fb \in FeedbackInputs :
       Rate(tok, id, r, fb)
  \/ \E k \in {"", "s3cret"}, id \in OrderIds : Delete(k, id)
  \/ \E id \in OrderIds : UploadResult("s3cret", TRUE, id, "skip")
  \/ Tick

SpecStore == InitStore /\ [][NextStore]_vars

\* server.js with several orders in the store: creation, payment, mark-ready,
\* rating, deletion and listing, each with one request body
PairIds == 1..MaxPairOrders

NextPair ==
  \/ \E form \in Forms : UploadBinUpTo(MaxPairOrders, "a@x", "", form, TRUE)
  \/ \E id \in PairIds : MpWebhook(id, "approved")
  \/ \E id \in PairIds : MarkReady("s3cret", id, <<"u">>)
  \/ \E id \in PairIds : Rate("a@x", id, ParseInt(<<"4">>), <<"g">>)
  \/ \E k \in {"", "s3cret"}, id \in PairIds : Delete(k, id)
  \/ AdminOrders("s3cret")
  \/ Tick

SpecPair == InitStore /\ [][NextPair]_vars

\* index.js with several orders in the store and one upload-mod in flight
LegacyPairIds == 1..MaxLegacyPairOrders

NextLegacyPair ==
  \/ ApiUploadUpTo(MaxLegacyPairOrders, TRUE, TRUE)
  \/ \E id \in LegacyPairIds, st \in {"in_progress", "delivered"} : SetStatus(id, st)
  \/ \E id \in LegacyPairIds, file \in LegacyFiles : UploadModBegin(1, id, TRUE, file)
  \/ \E ok \in BOOLEAN : UploadModFinish(1, ok)
  \/ Tick

SpecLegacyPair == InitLegacy /\ [][NextLegacyPair]_vars

\* server.js with several orders of different owners: creation, the customer
\* listing and deletion
InitListing == Init /\ adminEnv = "s3cret"
ListingTokens == {"none", "a@x", "b@x"}
ListingQueries == {"", "A@x", "b@x"}

NextListing ==
  \/ \E tok \in Identities, e \in {"", "A@x"} :
       UploadBinUpTo(MaxPairOrders, tok, e, EmptyForm, TRUE)
  \/ \E tok \in ListingTokens, q \in ListingQueries : GetOrders(tok, q)
  \/ \E id \in PairIds : Delete("s3cret", id)
  \/ Tick

SpecListing == InitListing /\ [][NextListing]_vars

----------------------------------------------------------------------------
(* Properties *)

Has(arr, id) == \E i \in 1..Len(arr) : arr[i].orderId = id
Rec(arr, id) == arr[FindIndex(arr, id)]

\* C1: an order's status only moves forward along
\* uploaded < paid < ready < delivered, or into rejected; no operation takes
\* an order from a later status back to an earlier one.
C1_StatusNeverMovesBack ==
  [][\A id \in OrderIds :
       (Has(orders, id) /\ Has(orders', id)) =>
         LET rank == [st \in {"uploaded", "paid", "ready", "delivered", "rejected"} |->
                        CASE st = "uploaded" -> 0 [] st = "paid" -> 1
                          [] st = "ready" -> 2 [] st = "delivered" -> 3
                          [] st = "rejected" -> 4]
         IN rank[Rec(orders', id).status] >= rank[Rec(orders, id).status]]_vars

\* C2: an approved payment confirmation for an order that is already paid,
\* ready or delivered succeeds and leaves status, paymentProvider, paymentId
\* and paymentStatus as they were.
C2_ConfirmationIdempotent ==
  [][\A id \in OrderIds :
       ( /\ Has(orders, id)
         /\ Rec(orders, id).status \in {"paid", "ready", "delivered"}
         /\ resp'.id = id
         /\ \/ resp'.op = "mpWebhook" /\ resp'.who = "approved"
            \/ resp'.op = "paypalCapture" /\ resp'.who = "COMPLETED" )
       => /\ resp'.code = 200
          /\ Has(orders', id)
          /\ Rec(orders', id).status = Rec(orders, id).status
          /\ Rec(orders', id).paymentProvider = Rec(orders, id).paymentProvider
          /\ Rec(orders', id).paymentId = Rec(orders, id).paymentId
          /\ Rec(orders', id).paymentStatus = Rec(orders, id).paymentStatus]_vars

\* C3: an upload-mod that completes after other requests on the same order
\* have committed leaves, for its order, the record that results from
\* applying its mutation to the committed record (the requests are
\* serialized, the upload-mod last); an upload-mod that fails leaves the
\* record as committed.
C3_OverlappingWritersSerialize ==
  [][\A s \in 1..MaxInflight :
       (reqs[s].pc = "mv" /\ reqs'[s].pc = "idle" /\ Has(db, reqs[s].id)) =>
         /\ Has(db', reqs[s].id)
         /\ Rec(db', reqs[s].id) =
              IF resp'.code = 200
                THEN UploadModMutate(Rec(db, reqs[s].id), reqs[s].file, now)
                ELSE Rec(db, reqs[s].id)]_vars

\* an upload-mod has committed while another upload-mod on the same order,
\* begun before that commit, is still moving its file
C3_Witness ==
  /\ resp.op = "uploadMod" /\ resp.code = 200
  /\ \E s \in 1..MaxInflight :
       /\ reqs[s].pc = "mv" /\ reqs[s].id = resp.id
       /\ Has(db, resp.id)
       /\ reqs[s].snap[reqs[s].idx] # Rec(db, resp.id)
       /\ reqs[s].snap[reqs[s].idx].status # Rec(db, resp.id).status

\* C4: once an order is delivered or rejected, its status stays as it was
\* and every later transition attempt on it is refused.
C4_TerminalStatesRefuse ==
  [][\A id \in LegacyIds :
       (Has(db, id) /\ Rec(db, id).status \in {"delivered", "rejected"}) =>
         /\ Has(db', id) /\ Rec(db', id).status = Rec(db, id).status
         /\ (resp'.op \in {"status", "uploadMod"} /\ resp'.id = id /\ resp' # resp)
              => resp'.code # 200]_vars

\* C5: once an order's paymentStatus is approved, it stays approved for as
\* long as the order exists.
C5_ApprovedStaysApproved ==
  [][\A id \in OrderIds :
       (Has(orders, id) /\ Has(orders', id)
          /\ Rec(orders, id).paymentStatus = "approved")
       => Rec(orders', id).paymentStatus = "approved"]_vars

\* a capture that PayPal reports as not completed was handled for an order
\* that is approved
C5_Witness ==
  /\ resp.op = "paypalCapture" /\ resp.code = 200 /\ resp.who = "PENDING"
  /\ Has(orders, resp.id)
  /\ Rec(orders, resp.id).paymentStatus = "approved"

\* C6: an administrative operation called with a missing or non-matching
\* admin credential fails with 401, changes no order, returns no order data
\* and stores no result file.
C6_AdminGate ==
  [][(resp'.op \in {"adminOrders", "markReady", "delete", "uploadResult"}
        /\ resp'.key # ADMIN_KEY)
     => /\ resp'.code = 401
        /\ resp'.ids = {}
        /\ orders' = orders
        /\ resultsDir' = resultsDir]_vars

\* C6 in the stand-alone uploader: a result upload without the configured
\* credential is refused and stores nothing, also when no secret is
\* configured.
C6_UploaderGate ==
  [][(resp'.op = "p0.uploadResult" /\ resp' # resp
        /\ (resp'.key = "" \/ resp'.key # UploaderAdminKey))
     => resp'.code = 401 /\ upl' = upl]_vars

C8_ResultOnlyWhenReady ==
  \A i \in 1..Len(orders) :
    (orders[i].resultFileUrl # <<>> \/ orders[i].resultFileName # <<>>)
      => orders[i].status \in {"ready", "delivered"}

\* C9: an order whose paymentStatus is approved has status paid, ready,
\* delivered or rejected; it is never uploaded.
C9_ApprovedImpliesPaid ==
  \A i \in 1..Len(orders) :
    orders[i].paymentStatus = "approved"
      => orders[i].status \in {"paid", "ready", "delivered", "rejected"}

\* an approved order has been marked ready
C9_Witness ==
  \E i \in 1..Len(orders) :
    orders[i].paymentStatus = "approved" /\ orders[i].status = "ready"

\* C10: an order with a non-zero rating has status ready or later.
C10_RatingOnlyWhenReady ==
  \A i \in 1..Len(orders) :
    orders[i].rating # 0 => orders[i].status \in {"ready", "delivered"}

\* C11: every stored rating is an integer in 0..5; an accepted rating request
\* with the integer n stores n clamped to 0..5 (-3 is stored as 0, 9 as 5),
\* and one whose rating is missing or not a number stores 0.
C11_RatingClamped ==
  /\ [](\A i \in 1..Len(orders) : orders[i].rating \in 0..5)
  /\ [][\A tok \in Identities, id \in OrderIds, fb \in FeedbackInputs :
         LET Stored == Rec(orders', id).rating
             Accepted(text) == Rate(tok, id, ParseInt(text), fb) /\ resp'.code = 200
         IN /\ Accepted(<<"-", "3">>) => Stored = 0
            /\ Accepted(<<"4">>) => Stored = 4
            /\ Accepted(<<"9">>) => Stored = 5
            /\ Accepted(<<"x">>) => Stored = 0
            /\ Accepted(<<>>) => Stored = 0]_vars

\* the owner's rating request was accepted and left the rating at the upper
\* limit, on an order that had been given feedback
C11_Witness ==
  /\ resp.op = "rate" /\ resp.code = 200
  /\ Has(orders, resp.id)
  /\ Rec(orders, resp.id).rating = 5
  /\ Rec(orders, resp.id).feedback # <<>>

C13_UnresolvableEventAcknowledged ==
  [][(/\ now' = now
      /\ resp'.op \in {"mpWebhook", "paypalCapture"}
      /\ ~Has(orders, resp'.id))
     => resp'.code = 200 /\ orders' = orders]_vars

\* C13, amended: a payment event whose orderId is missing or names no stored
\* order changes nothing. The Mercado Pago webhook answers it with 200; the
\* PayPal capture answers 400 when orderId or paypalOrderId is missing, 500
\* when the capture call fails, and 200 otherwise.
C13_UnresolvableEventChangesNothing ==
  [][(/\ now' = now
      /\ resp'.op \in {"mpWebhook", "paypalCapture"}
      /\ ~Has(orders, resp'.id))
     => /\ orders' = orders
        /\ resp'.op = "mpWebhook" => resp'.code = 200
        /\ resp'.op = "paypalCapture" =>
             /\ resp'.code \in {200, 400, 500}
             /\ resp'.id = NoId => resp'.code = 400
             /\ resp'.code = 400 <=> resp'.who = ""
             /\ resp'.code = 500 <=> resp'.who = "THROWS"]_vars

\* a completed capture arrived for an order that had been deleted
C13_Witness ==
  /\ resp.op = "paypalCapture" /\ resp.code = 200 /\ resp.who = "COMPLETED"
  /\ resp.id \in 1..nextId
  /\ ~Has(orders, resp.id)

\* C14: a payment event that reports a status other than approved (completed,
\* for a capture) is answered with success and leaves every order as it was.
C14_NonApprovedEventIgnored ==
  [][(/\ now' = now
      /\ resp'.op \in {"mpWebhook", "paypalCapture"}
      /\ resp'.who \in {"pending", "PENDING"})
     => resp'.code = 200 /\ orders' = orders]_vars

\* C15: when sending the mail fails during an authorized result upload that
\* carries a file, the order still ends ready with the new result file, and
\* the response is a success response.
C15_MailFailureNonFatal ==
  [][(/\ now' = now
      /\ resp'.op = "uploadResult" /\ resp'.who = "fail"
      /\ resp'.code \notin {400, 401})
     => /\ resp'.code = 200
        /\ Has(orders, resp'.id) =>
             /\ Rec(orders', resp'.id).status = "ready"
             /\ Rec(orders', resp'.id).resultFileName = StoredName(now, "r.bin")]_vars

\* C16: an authorized, well-formed mark-ready, rate, delete or uploadResult
\* request that names an orderId not in the store fails with 404 and leaves
\* the store unchanged.
C16_UnknownOrderNotFound ==
  [][(/\ now' = now
      /\ resp'.op \in {"markReady", "rate", "delete", "uploadResult"}
      /\ resp'.id # NoId /\ ~Has(orders, resp'.id)
      /\ resp'.code \notin {400, 401})
     => resp'.code = 404 /\ orders' = orders]_vars

\* C17: once an order is stored, no operation changes its orderId, userEmail,
\* soluciones, comments, vehicle meta, original file reference or createdAt.
C17_CreationFieldsFrozen ==
  [][\A id \in OrderIds :
       (Has(orders, id) /\ Has(orders', id)) =>
         LET before == Rec(orders, id)
             after == Rec(orders', id)
         IN /\ after.orderId = before.orderId
            /\ after.userEmail = before.userEmail
            /\ after.soluciones = before.soluciones
            /\ after.comments = before.comments
            /\ after.meta = before.meta
            /\ after.originalFileName = before.originalFileName
            /\ after.originalFileUrl = before.originalFileUrl
            /\ after.createdAt = before.createdAt]_vars

\* an order created from the filled-in form has since been paid, given a
\* result and rated, at a later time than its creation
C17_Witness ==
  \E i \in 1..Len(orders) :
    /\ orders[i].comments = "c" /\ orders[i].meta["marca"] = "vw"
    /\ orders[i].soluciones["egrOff"] /\ ~orders[i].soluciones["dpfOff"]
    /\ orders[i].paymentStatus = "approved"
    /\ orders[i].status = "ready" /\ orders[i].resultFileName # <<>>
    /\ orders[i].rating = 4 /\ orders[i].feedback = <<"g">>
    /\ orders[i].createdAt < orders[i].updatedAt

\* C18: every operation that changes an order leaves its updatedAt strictly
\* greater than it was, and updatedAt is never below createdAt.
C18_UpdatedAtStrictlyIncreases ==
  /\ [](\A i \in 1..Len(orders) : orders[i].createdAt <= orders[i].updatedAt)
  /\ [][\A id \in OrderIds :
         (Has(orders, id) /\ Has(orders', id) /\ Rec(orders', id) # Rec(orders, id))
         => Rec(orders', id).updatedAt > Rec(orders, id).updatedAt]_vars

\* C19: a delete with the valid admin key for a stored orderId succeeds,
\* returns the record as it was just before, and removes that record and no
\* other; from then on the id is never in the store again, is in no listing,
\* and mark-ready, delete and rate answer 404 for it.
C19_DeleteRemovesExactlyOne ==
  [][\A id \in PairIds :
       /\ (/\ now' = now
           /\ resp'.op = "delete" /\ resp'.id = id /\ resp'.key = ADMIN_KEY
           /\ Has(orders, id))
          => /\ resp'.code = 200
             /\ resp'.removed = <<Rec(orders, id)>>
             /\ orders' = SelectSeq(orders, LAMBDA o : o.orderId # id)
       /\ (id \in 1..nextId /\ ~Has(orders, id))
          => /\ ~Has(orders', id)
             /\ (now' = now /\ resp'.op = "adminOrders") => id \notin resp'.ids
             /\ (/\ now' = now
                 /\ resp'.op \in {"markReady", "delete", "rate"} /\ resp'.id = id
                 /\ resp'.op # "rate" => resp'.key = ADMIN_KEY)
                => resp'.code = 404 /\ orders' = orders]_vars

\* the first of two orders was deleted after it had been paid and marked
\* ready; the second one is still stored, paid
C19_Witness ==
  /\ resp.op = "delete" /\ resp.code = 200 /\ resp.id = 1
  /\ resp.removed # <<>>
  /\ resp.removed[1].orderId = 1 /\ resp.removed[1].status = "ready"
  /\ resp.removed[1].paymentStatus = "approved"
  /\ Len(orders) = 1
  /\ orders[1].orderId = 2 /\ orders[1].status = "paid"

\* C20: a mark-ready request that carries no result reference, for an order
\* that has none (so that the order still has none afterwards), does not
\* move the order to ready.
C20_MarkReadyNeedsResult ==
  [][\A id \in OrderIds :
       (/\ now' = now
        /\ resp'.op = "markReady" /\ resp'.id = id
        /\ Has(orders, id) /\ Has(orders', id)
        /\ Rec(orders, id).status # "ready"
        /\ Rec(orders', id).resultFileUrl = <<>>
        /\ Rec(orders', id).resultFileName = <<>>)
       => Rec(orders', id).status # "ready"]_vars

\* C21: an upload-mod that completes on an order which already has a modified
\* file and whose status is ready or delivered leaves the status as it was.
C21_ReattachKeepsStatus ==
  [][\A s \in 1..MaxInflight :
       (/\ reqs[s].pc = "mv" /\ reqs'[s].pc = "idle"
        /\ resp'.op = "uploadMod" /\ resp'.code = 200
        /\ Has(db, reqs[s].id)
        /\ Rec(db, reqs[s].id).modified # <<>>
        /\ Rec(db, reqs[s].id).status \in {"ready", "delivered"})
       => /\ Has(db', reqs[s].id)
          /\ Rec(db', reqs[s].id).status = Rec(db, reqs[s].id).status]_vars

\* C22: an order that a payment confirmation has marked paid records the
\* confirming provider and a non-empty payment id.
C22_PaidRecordsPaymentId ==
  \A i \in 1..Len(orders) :
    orders[i].paymentStatus = "approved" =>
      /\ orders[i].paymentProvider \in {"mercadopago", "paypal"}
      /\ orders[i].paymentId # ""

\* C23: some offered operation can move an order that is ready to delivered,
\* and some offered operation can move an order that is neither delivered nor
\* rejected to rejected.
C23_DeliveredAndRejectedReachable ==
  \A id \in OrderIds :
    Has(orders, id) =>
      /\ Rec(orders, id).status = "ready" =>
           ENABLED (Next /\ Has(orders', id) /\ Rec(orders', id).status = "delivered")
      /\ Rec(orders, id).status \notin {"delivered", "rejected"} =>
           ENABLED (Next /\ Has(orders', id) /\ Rec(orders', id).status = "rejected")

\* C24: a step leaves in the store, unchanged, every order other than the one
\* the request is addressed to, also when the request overlaps with others.
C24_OtherOrdersUntouched ==
  [][\A id \in LegacyPairIds :
       (Has(db, id) /\ resp'.id # id)
       => Has(db', id) /\ Rec(db', id) = Rec(db, id)]_vars

\* C25: an /uploadBin request with a file succeeds and appends exactly one
\* record, which is in the initial state: status uploaded, no payment
\* provider, no payment id, payment status not approved, rating 0, empty
\* feedback and empty result reference. A request without a file is refused
\* and, like every refused request, adds no record.
C25_CreationAddsOneInitialRecord ==
  [][/\ (now' = now /\ resp'.op = "uploadBin") =>
          IF resp'.code = 200
            THEN /\ Len(orders') = Len(orders) + 1
                 /\ SubSeq(orders', 1, Len(orders)) = orders
                 /\ LET o == orders'[Len(orders')]
                    IN /\ o.orderId = resp'.id /\ ~Has(orders, o.orderId)
                       /\ o.status = "uploaded"
                       /\ o.paymentProvider = "" /\ o.paymentId = ""
                       /\ o.paymentStatus # "approved"
                       /\ o.rating = 0 /\ o.feedback = <<>>
                       /\ o.resultFileName = <<>> /\ o.resultFileUrl = <<>>
            ELSE orders' = orders
     /\ \A tok \in Identities, form \in Forms :
          /\ UploadBin(tok, "", form, TRUE) => resp'.code = 200
          /\ UploadBin(tok, "", form, FALSE) => resp'.code = 400 /\ orders' = orders]_vars

\* the filled-in form was uploaded with a file after the clock had moved, and
\* the store holds the one new record
C25_Witness ==
  /\ resp.op = "uploadBin" /\ resp.code = 200
  /\ Len(orders) = 1
  /\ orders[1].orderId = resp.id
  /\ orders[1].status = "uploaded" /\ orders[1].comments = "c"
  /\ orders[1].createdAt = MaxClock

\* C26: GET /orders never changes the store; when it passes token
\* verification it returns exactly the stored orders whose userEmail equals
\* the effective email without regard to case, the effective email being the
\* query parameter if given and the verified identity's email otherwise, and
\* it returns no order when the effective email is empty.
C26_ListingByEffectiveEmail ==
  [][\A tok \in ListingTokens, q \in ListingQueries :
       GetOrders(tok, q) =>
         LET identity == IF firebaseOn THEN tok ELSE ""
             effective == IF q # "" THEN q ELSE identity
             SameIgnoringCase(a, b) == a = b \/ {a, b} = {"a@x", "A@x"}
             matching == {i \in 1..Len(orders) :
                            SameIgnoringCase(orders[i].userEmail, effective)}
         IN /\ orders' = orders
            /\ resp'.code = 200 =>
                 resp'.ids = IF effective = "" THEN {}
                             ELSE {orders[i].orderId : i \in matching}]_vars

\* the listing for a@x returned the first of two stored orders, whose owner
\* is written A@x, and not the second, which belongs to b@x
C26_Witness ==
  /\ resp.op = "getOrders" /\ resp.code = 200 /\ resp.who = "a@x"
  /\ Len(orders) = 2
  /\ orders[1].userEmail = "A@x" /\ orders[2].userEmail = "b@x"
  /\ resp.ids = {orders[1].orderId}

====
